---------------------------- MODULE Spec2Model ----------------------------
(***************************************************************************)
(* Model of chipsec/helper/linux/linuxhelper.py (class LinuxHelper): the   *)
(* ioctl-mediated register access protocol, the session's device handles   *)
(* and the (U)EFI variable protocol (GET / SET / DELETE / LIST).           *)
(*                                                                         *)
(* Python values are tagged records (PyNone, PyStr, PyBytes, PyInt) so     *)
(* that None, "" and b"" stay different values.  Byte buffers are          *)
(* sequences of integers 0..255; machine words are packed little-endian,   *)
(* as struct.pack does on the x86 platforms the helper targets.            *)
(***************************************************************************)
EXTENDS Integers, Sequences, FiniteSets, TLC

VARIABLES
    \* ---- EFI variable calls (kern_get_EFI_variable_full, kern_set_..., kern_list_...)
    pc,          \* position of the running EFI call
    name,        \* argument `name` of the running call (sequence of characters)
    guid,        \* argument `guid` of the running call (36 characters)
    buffer,      \* local `buffer` (array.array("B")), the driver writes it in place
    data_size,   \* local `data_size`
    new_size,    \* local `new_size` decoded from the response
    status,      \* local `status` decoded from the response
    calls,       \* the control calls the running call has issued: <<[nr, buf]>>
    resps,       \* how each of those control calls ended (IOErr or the driver's answer)
    log,         \* logger().log_debug lines of the running call
    full,        \* value returned by kern_get_EFI_variable_full
    ret,         \* what the public operation hands to its caller
    effects,     \* the running call's side effects in order: "ioctl", "remount"
    value,       \* argument `value` of the running kern_set_EFI_variable
    varlist,     \* local `varlist` of the running kern_list_EFI_variables
    \* ---- register and session operations
    op,          \* the register or session operation that has just run
    trace,       \* what it did, in order: pins and control calls, a LIST's GETs
    \* ---- the platform's EFI variables
    store,       \* the variables the firmware holds (the driver reads and writes them)
    efivarfs,    \* the variables the mounted variable filesystem shows
    efidir,      \* which directory exists: "efivars", "vars" or "none"
    deleted,     \* the (name, guid) of the last delete_EFI_variable call, or PyNone
    \* ---- the session (LinuxHelper object) and its process
    x64,         \* sys.maxsize > 2**32
    pack,        \* self._pack: "Q", "I", or "" before init
    ioctl_base,  \* self._ioctl_base: 32 bits, least significant first
    dev_fh,      \* self.dev_fh: 0 for None, else the handle's number
    dev_mem,     \* self.dev_mem: 0 for None, else the handle's number
    driver_loaded, \* self.driver_loaded
    module,      \* the chipsec kernel module is inserted
    handles,     \* every handle opened so far: [open, closes]
    affinity,    \* the process's CPU affinity mask
    \* ---- physical memory through the device handle, called from threads
    fpos,        \* the file position of each handle, by the handle's number
    threads      \* each thread's running read_phys_mem / write_phys_mem call

\* the locals of the running call
callVars == <<pc, name, guid, buffer, data_size, new_size, status, calls, resps, log, full, ret,
              effects, value, varlist, op, trace>>

platformVars == <<store, efivarfs, efidir, deleted>>

sessionVars == <<x64, pack, ioctl_base, dev_fh, dev_mem, driver_loaded, module, handles,
                 affinity>>

memVars == <<fpos, threads>>

vars == <<callVars, platformVars, sessionVars, memVars>>

-----------------------------------------------------------------------------
(* Bounds of the model                                                     *)

MaxNameLen == 2
MaxNewSize == 60
MaxGrow == 3
MaxValueLen == 2
StoredSize == 2
MaxHandles == 3
MaxCpu == 1

-----------------------------------------------------------------------------
(* Python values                                                           *)

PyNone == [t |-> "None"]
PyStr(s) == [t |-> "str", v |-> s]
PyBytes(b) == [t |-> "bytes", v |-> b]
PyInt(n) == [t |-> "int", v |-> n]
PyRaise(e) == [t |-> "raise", v |-> e]
Pending == [t |-> "pending"]

\* (hi << 32) + lo, kept as its two halves
Wide(hi, lo) == [hi |-> hi, lo |-> lo]

Min(a, b) == IF a < b THEN a ELSE b

\* s[a:b] for 0 <= a, clipped to the sequence as Python clips a slice
PySlice(s, a, b) ==
    IF Min(b, Len(s)) <= a THEN << >> ELSE SubSeq(s, a + 1, Min(b, Len(s)))

\* s[a:]
PyTail(s, a) == PySlice(s, a, Len(s))

RECURSIVE Concat(_)
Concat(ss) == IF ss = << >> THEN << >> ELSE Head(ss) \o Concat(Tail(ss))

-----------------------------------------------------------------------------
(* struct.pack / struct.unpack                                             *)

\* one 'I' field, little-endian
PackI(v) == << v % 256, (v \div 256) % 256, (v \div 65536) % 256, (v \div 16777216) % 256 >>

\* struct.unpack("I", b)[0]
UnpackI(b) == b[1] + 256 * b[2] + 65536 * b[3] + 16777216 * b[4]

\* a run of 'I' fields
PackWords(ws) == Concat([i \in 1..Len(ws) |-> PackI(ws[i])])

\* '<n>s': the first n bytes of v, padded with zero bytes up to n
PackS(n, v) == [i \in 1..n |-> IF i <= Len(v) THEN v[i] ELSE 0]

\* str.encode(): UTF-8, one byte for an ASCII character, two for U+00E9
Utf8(c) ==
    CASE c = "A" -> << 65 >>
      [] c = "b" -> << 98 >>
      [] c = "-" -> << 45 >>
      [] c = "e'" -> << 195, 169 >>

Encode(s) == Concat([i \in 1..Len(s) |-> Utf8(s[i])])

HexDigit(c) ==
    CASE c = "0" -> 0 [] c = "1" -> 1 [] c = "2" -> 2 [] c = "3" -> 3
      [] c = "4" -> 4 [] c = "5" -> 5 [] c = "6" -> 6 [] c = "7" -> 7
      [] c = "8" -> 8 [] c = "9" -> 9 [] c = "a" -> 10 [] c = "b" -> 11
      [] c = "c" -> 12 [] c = "d" -> 13 [] c = "e" -> 14 [] c = "f" -> 15

\* int(s, 16)
RECURSIVE HexInt(_)
HexInt(s) ==
    IF s = << >> THEN 0
    ELSE 16 * HexInt(SubSeq(s, 1, Len(s) - 1)) + HexDigit(s[Len(s)])


-----------------------------------------------------------------------------
(* Opcodes and EFI constants                                               *)

IOCTL_RDIO == 1
IOCTL_WRIO == 2
IOCTL_RDPCI == 3
IOCTL_WRPCI == 4
IOCTL_RDMSR == 5
IOCTL_WRMSR == 6
IOCTL_CPUID == 7
IOCTL_GET_CPU_DESCRIPTOR_TABLE == 8
IOCTL_HYPERCALL == 9
IOCTL_SWSMI == 10
IOCTL_LOAD_UCODE_PATCH == 11
IOCTL_ALLOC_PHYSMEM == 12
IOCTL_GET_EFIVAR == 13
IOCTL_SET_EFIVAR == 14
IOCTL_RDCR == 16
IOCTL_WRCR == 17
IOCTL_RDMMIO == 18
IOCTL_WRMMIO == 19
IOCTL_VA2PA == 20
IOCTL_MSGBUS_SEND_MESSAGE == 21
IOCTL_FREE_PHYSMEM == 22

MSGBUS_MDR_IN_MASK == 1
MSGBUS_MDR_OUT_MASK == 2

\* kern_set_EFI_variable: header_size, default attr
set_header_size == 60
set_attr_default == 7

\* kern_get_EFI_variable_full: header_size, base
get_header_size == 52
base == 12

\* status_dict.get(status, 'UNKNOWN')
status_dict(s) ==
    CASE s = 0 -> "EFI_SUCCESS"
      [] s = 1 -> "EFI_LOAD_ERROR"
      [] s = 2 -> "EFI_INVALID_PARAMETER"
      [] s = 3 -> "EFI_UNSUPPORTED"
      [] s = 4 -> "EFI_BAD_BUFFER_SIZE"
      [] s = 5 -> "EFI_BUFFER_TOO_SMALL"
      [] s = 6 -> "EFI_NOT_READY"
      [] s = 7 -> "EFI_DEVICE_ERROR"
      [] s = 8 -> "EFI_WRITE_PROTECTED"
      [] s = 9 -> "EFI_OUT_OF_RESOURCES"
      [] s = 14 -> "EFI_NOT_FOUND"
      [] s = 26 -> "EFI_SECURITY_VIOLATION"
      [] OTHER -> "UNKNOWN"

\* guid0 .. guid10: the canonical string cut at fixed offsets
GuidFields(g) ==
    << HexInt(PySlice(g, 0, 8)), HexInt(PySlice(g, 9, 13)), HexInt(PySlice(g, 14, 18)),
       HexInt(PySlice(g, 19, 21)), HexInt(PySlice(g, 21, 23)), HexInt(PySlice(g, 24, 26)),
       HexInt(PySlice(g, 26, 28)), HexInt(PySlice(g, 28, 30)), HexInt(PySlice(g, 30, 32)),
       HexInt(PySlice(g, 32, 34)), HexInt(PyTail(g, 34)) >>

-----------------------------------------------------------------------------
(* The driver and the transport, as the helper sees them                   *)

IOErr == [t |-> "IOError"]

\* byte j (from 1) of the variable data the driver copies out
PayloadByte(j) == 1 + (j % 250)

\* GetEfiVar response written in place over a request of the same length:
\* new_size, status, attributes, then the data region
DriverWriteGet(buf, o) ==
    LET hdr == PackI(o.new_size) \o PackI(o.status) \o PackI(o.attr)
    IN  [i \in 1..Len(buf) |-> IF i <= Len(hdr) THEN hdr[i] ELSE PayloadByte(i - Len(hdr))]

-----------------------------------------------------------------------------
(* kern_get_EFI_variable_full                                              *)

\* struct.pack('13I' + str(slen) + 's', data_size, guid0..guid10, namelen, name.encode())
GetRequest(dsz, g, namelen, slen, n) ==
    PackWords(<< dsz >> \o GuidFields(g) \o << namelen >>) \o PackS(slen, Encode(n))

\* the probe: data_size = header_size + namelen, no room for data
GetProbeSize(n) == get_header_size + Len(n)

\* the retry sized without the name
GetRetrySize_noName(n, ns) == ns + get_header_size

\* data_size = new_size + header_size + namelen
GetRetrySize(n, ns) == ns + get_header_size + Len(n)

\* a retry on any failure status instead of on status 5 alone
GetNeedsRetry_anyFailure(st) == st # 0

\* in_buf of the probe (line 506)
GetProbeRequest(n, g) == GetRequest(GetProbeSize(n), g, Len(n), Len(n), n)

\* in_buf of the retry (lines 512-513): the name field grows by new_size bytes
GetRetryRequest(n, g, ns) == GetRequest(GetRetrySize(n, ns), g, Len(n), Len(n) + ns, n)

\* if (status == 0x5): the one condition under which GetEfiVar is reissued
GetNeedsRetry(st) == st = 5

\* the tuple (off, buf, hdr, data, guid, attr)
GetTuple(d, g, a) == [off |-> 0, buf |-> << >>, hdr |-> 0, data |-> d, guid |-> g, attr |-> a]

\* buffer[base:base + new_size].tobytes()
GetData(b, ns) == PyBytes(PySlice(b, base, base + ns))

\* the data of a response whose status is not success: data = ""
GetNoData == PyStr(<< >>)

\* if (new_size > data_size)
GetOversized(ns, dsz) == ns > dsz

\* the status test left out: the data region is returned whatever the status
GetFinish_ignoreStatus(b, dsz, ns, st, g) ==
    IF GetOversized(ns, dsz)
    THEN [full |-> GetTuple(PyNone, PyStr(g), 0),
          log |-> << [msg |-> "Incorrect size returned from driver"] >>]
    ELSE [full |-> GetTuple(GetData(b, ns), PyStr(g), UnpackI(PySlice(b, 8, 12))),
          log |-> << >>]

\* lines 522-534: the final (new_size, status) decides what is returned
GetFinish(b, dsz, ns, st, g) ==
    IF GetOversized(ns, dsz)
    THEN [full |-> GetTuple(PyNone, PyStr(g), 0),
          log |-> << [msg |-> "Incorrect size returned from driver"] >>]
    ELSE IF st > 0
    THEN [full |-> GetTuple(GetNoData, PyInt(0), 0),
          log |-> << [msg |-> "Reading variable (GET_EFIVAR) did not succeed",
                      status |-> status_dict(st), code |-> st] >>]
    ELSE [full |-> GetTuple(GetData(b, ns), PyStr(g), UnpackI(PySlice(b, 8, 12))),
          log |-> << >>]

\* the whole call against a transport whose first exchange ends as o1 and
\* whose second (if one is made) ends as o2
kern_get_EFI_variable_full(n, g, o1, o2) ==
    LET ds1 == GetProbeSize(n)
        req1 == GetProbeRequest(n, g)
        c1 == [nr |-> IOCTL_GET_EFIVAR, buf |-> req1]
    IN  IF o1.t = "IOError"
        THEN [raised |-> TRUE, full |-> PyRaise("IOError"), log |-> << >>, calls |-> << c1 >>,
              buffer |-> req1, data_size |-> ds1, new_size |-> -1, status |-> -1]
        ELSE
        LET b1 == DriverWriteGet(req1, o1)
            ns1 == UnpackI(PySlice(b1, 0, 4))
            st1 == UnpackI(PySlice(b1, 4, 8))
        IN  IF GetNeedsRetry(st1)
            THEN
            LET ds2 == GetRetrySize(n, ns1)
                req2 == GetRetryRequest(n, g, ns1)
                c2 == [nr |-> IOCTL_GET_EFIVAR, buf |-> req2]
            IN  IF o2.t = "IOError"
                THEN [raised |-> FALSE, full |-> GetTuple(PyNone, PyStr(g), 0),
                      log |-> << [msg |-> "IOError IOCTL GetUEFIvar"] >>,
                      calls |-> << c1, c2 >>, buffer |-> req2, data_size |-> ds2,
                      new_size |-> ns1, status |-> st1]
                ELSE
                LET b2 == DriverWriteGet(req2, o2)
                    ns2 == UnpackI(PySlice(b2, 0, 4))
                    st2 == UnpackI(PySlice(b2, 4, 8))
                    f == GetFinish(b2, ds2, ns2, st2, g)
                IN  [raised |-> FALSE, full |-> f.full, log |-> f.log, calls |-> << c1, c2 >>,
                     buffer |-> b2, data_size |-> ds2, new_size |-> ns2, status |-> st2]
            ELSE
            LET f == GetFinish(b1, ds1, ns1, st1, g)
            IN  [raised |-> FALSE, full |-> f.full, log |-> f.log, calls |-> << c1 >>,
                 buffer |-> b1, data_size |-> ds1, new_size |-> ns1, status |-> st1]

\* kern_get_EFI_variable: (off, buf, hdr, data, guid, attr) -> data
kern_get_EFI_variable(r) == IF r.raised THEN r.full ELSE r.full.data


-----------------------------------------------------------------------------
(* Calls: every operation starts from "idle" and ends in a state that      *)
(* holds what it did and returned, until the caller takes the result       *)

\* the threads that share the session
Threads == {1, 2}

\* a thread that is in no call
IdleThread ==
    [pc |-> "idle", op |-> "", hi |-> 0, lo |-> 0, length |-> 0, newval |-> PyNone,
     at |-> Wide(0, 0), crossed |-> FALSE, ret |-> Pending]

\* no thread is in a call, every handle is at the start of its file
NoTransfers ==
    /\ threads = [th \in Threads |-> IdleThread]
    /\ fpos = [h \in 1..MaxHandles |-> Wide(0, 0)]

Idle ==
    /\ NoTransfers
    /\ pc = "idle" /\ name = << >> /\ guid = << >> /\ buffer = << >>
    /\ data_size = 0 /\ new_size = 0 /\ status = 0
    /\ calls = << >> /\ resps = << >> /\ log = << >>
    /\ full = Pending /\ ret = Pending /\ effects = << >> /\ value = PyNone
    /\ varlist = << >> /\ op = "" /\ trace = << >>

\* the caller takes the result; the call's locals are gone
Return ==
    /\ pc # "idle"
    /\ pc' = "idle" /\ name' = << >> /\ guid' = << >> /\ buffer' = << >>
    /\ data_size' = 0 /\ new_size' = 0 /\ status' = 0
    /\ calls' = << >> /\ resps' = << >> /\ log' = << >>
    /\ full' = Pending /\ ret' = Pending /\ effects' = << >> /\ value' = PyNone
    /\ varlist' = << >> /\ op' = "" /\ trace' = << >>
    /\ UNCHANGED <<platformVars, sessionVars, memVars>>

\* no EFI variables on the platform: the driver's answers are arbitrary
NoPlatform == store = {} /\ efivarfs = {} /\ efidir = "none" /\ deleted = PyNone

-----------------------------------------------------------------------------
(* The control code: 32-bit values as sequences of bits, least significant *)
(* first (bit i of the value is element i + 1)                             *)

IdWidth == 32

RECURSIVE Pow2(_)
Pow2(k) == IF k = 0 THEN 1 ELSE 2 * Pow2(k - 1)

\* the bits of a non-negative integer, from bit i - 1 up
RECURSIVE BitsFrom(_, _)
BitsFrom(n, i) == IF i > IdWidth THEN << >> ELSE << n % 2 >> \o BitsFrom(n \div 2, i + 1)

ToBits(n) == BitsFrom(n, 1)

\* a << k
Shl(a, k) == [i \in 1..IdWidth |-> IF i - k >= 1 THEN a[i - k] ELSE 0]

\* a | b
OrBits(a, b) == [i \in 1..IdWidth |-> IF a[i] = 1 \/ b[i] = 1 THEN 1 ELSE 0]

\* a + b from bit i - 1 up, with carry c into that bit
RECURSIVE AddFrom(_, _, _, _)
AddFrom(a, b, i, c) ==
    IF i > IdWidth THEN << >>
    ELSE << (a[i] + b[i] + c) % 2 >> \o AddFrom(a, b, i + 1, (a[i] + b[i] + c) \div 2)

\* a + b
AddBits(a, b) == AddFrom(a, b, 1, 0)

\* struct.calcsize(self._pack)
calcsize(pk) == IF pk = "Q" THEN 8 ELSE 4

\* ord('C')
itype == 67

\* the type tag left in the low byte, where the opcode is added
compute_ioctlbase_typeUnshifted(pk) ==
    OrBits(OrBits(Shl(ToBits(3), 30), ToBits(itype)), Shl(ToBits(calcsize(pk)), 16))

\* (3 << 30) | (ord(itype) << 8) | (struct.calcsize(self._pack) << 16)
compute_ioctlbase(pk) ==
    OrBits(OrBits(Shl(ToBits(3), 30), Shl(ToBits(itype), 8)), Shl(ToBits(calcsize(pk)), 16))

\* self._ioctl_base + nr
IoctlId(b, nr) == AddBits(b, ToBits(nr))

-----------------------------------------------------------------------------
(* The session: __init__, init, start, stop, close, devmem_available       *)

Cpus == 0..MaxCpu

\* _ioctl_base before init has set it
NoBase == ToBits(0)

\* after LinuxHelper(): no handle, nothing packed yet; driver_loaded is the
\* base class's False
Fresh ==
    /\ x64 \in BOOLEAN
    /\ pack = ""
    /\ ioctl_base = NoBase
    /\ dev_fh = 0
    /\ dev_mem = 0
    /\ driver_loaded = FALSE
    /\ module \in BOOLEAN
    /\ handles = << >>
    /\ affinity = Cpus

\* a session on which start(True) has succeeded once
SessionStarted ==
    /\ x64 \in BOOLEAN
    /\ pack = (IF x64 THEN "Q" ELSE "I")
    /\ ioctl_base = compute_ioctlbase(pack)
    /\ dev_fh = 1
    /\ dev_mem = 0
    /\ driver_loaded = TRUE
    /\ module = TRUE
    /\ handles = << [open |-> TRUE, closes |-> 0] >>
    /\ affinity = Cpus

\* open(...) / os.open(...): one more handle
Opened(hs) == Append(hs, [open |-> TRUE, closes |-> 0])

\* f.close() / os.close(fd)
Closed(hs, h) == [hs EXCEPT ![h] = [open |-> FALSE, closes |-> @.closes + 1]]

\* a session operation ends: nothing of the EFI locals is touched
Finished(o, r) ==
    /\ pc' = "done"
    /\ op' = o
    /\ ret' = r
    /\ UNCHANGED <<name, guid, buffer, data_size, new_size, status, calls, resps, log, full,
                   effects, value, varlist, platformVars, memVars>>

\* the body of init(start_driver); ok: open(DEVICE_NAME, "rb+") succeeds
InitBody(start_driver, ok) ==
    /\ pack' = (IF x64 THEN "Q" ELSE "I")
    /\ IF start_driver /\ ok
       THEN /\ handles' = Opened(handles)
            /\ dev_fh' = Len(handles) + 1
            /\ driver_loaded' = TRUE
            /\ ioctl_base' = compute_ioctlbase(pack')
       ELSE UNCHANGED <<handles, dev_fh, driver_loaded, ioctl_base>>
    /\ UNCHANGED <<x64, dev_mem, affinity>>

\* whether open(DEVICE_NAME) can succeed: the device node needs the module,
\* and the open can still be refused
OpenResults == IF module /\ Len(handles) < MaxHandles THEN BOOLEAN ELSE {FALSE}

\* init(start_driver)
init ==
    /\ pc = "idle"
    /\ \E start_driver \in BOOLEAN, ok \in OpenResults :
         /\ InitBody(start_driver, ok)
         /\ module' = module
         /\ trace' = << >>
         /\ Finished("init", IF start_driver /\ ~ok THEN PyRaise("OsHelperError") ELSE PyNone)

\* start(start_driver): reload the module, then init
start ==
    /\ pc = "idle"
    /\ \E start_driver \in BOOLEAN, loaded \in BOOLEAN :
         IF start_driver /\ ~loaded
         THEN \* load_chipsec_module raises after the rmmod
              /\ module' = FALSE
              /\ trace' = << >>
              /\ UNCHANGED <<x64, pack, ioctl_base, dev_fh, dev_mem, driver_loaded, handles,
                             affinity>>
              /\ Finished("start", PyRaise("Exception"))
         ELSE /\ module' = (IF start_driver THEN TRUE ELSE module)
              /\ \E ok \in (IF module' /\ Len(handles) < MaxHandles THEN BOOLEAN ELSE {FALSE}) :
                   /\ InitBody(start_driver, ok)
                   /\ trace' = << >>
                   /\ Finished("start", IF start_driver /\ ~ok
                                        THEN PyRaise("OsHelperError") ELSE PyInt(1))

\* the body of close()
CloseBody ==
    /\ handles' = LET h1 == IF dev_fh # 0 THEN Closed(handles, dev_fh) ELSE handles
                  IN  IF dev_mem # 0 THEN Closed(h1, dev_mem) ELSE h1
    /\ dev_fh' = 0
    /\ dev_mem' = 0
    /\ UNCHANGED <<x64, pack, ioctl_base, driver_loaded, affinity>>

\* close()
close ==
    /\ pc = "idle"
    /\ CloseBody
    /\ module' = module
    /\ trace' = << >>
    /\ Finished("close", PyNone)

\* stop(start_driver): close(), then rmmod if the driver was loaded
stop ==
    /\ pc = "idle"
    /\ CloseBody
    /\ module' = (IF driver_loaded THEN FALSE ELSE module)
    /\ trace' = << >>
    /\ Finished("stop", PyInt(1))

\* devmem_available()
devmem_available ==
    /\ pc = "idle"
    /\ IF dev_mem # 0
       THEN /\ UNCHANGED sessionVars
            /\ trace' = << >>
            /\ Finished("devmem_available", PyInt(1))
       ELSE \E ok \in (IF Len(handles) < MaxHandles THEN BOOLEAN ELSE {FALSE}) :
              /\ IF ok
                 THEN handles' = Opened(handles) /\ dev_mem' = Len(handles) + 1
                 ELSE UNCHANGED <<handles, dev_mem>>
              /\ UNCHANGED <<x64, pack, ioctl_base, dev_fh, driver_loaded, module, affinity>>
              /\ trace' = << >>
              /\ Finished("devmem_available",
                          IF ok THEN PyInt(1) ELSE PyRaise("OsHelperError"))

\* the interpreter may finalize a file object nothing refers to any more
\* (the one self.dev_fh held before init assigned a new one); when it does
\* so is not fixed by the language
finalize ==
    \E h \in 1..Len(handles) :
        /\ handles[h].open
        /\ h # dev_fh /\ h # dev_mem
        /\ handles' = Closed(handles, h)
        /\ UNCHANGED <<callVars, platformVars, x64, pack, ioctl_base, dev_fh, dev_mem,
                       driver_loaded, module, affinity, memVars>>

InitSession == Idle /\ NoPlatform /\ Fresh

NextSession ==
    init \/ start \/ close \/ stop \/ devmem_available \/ finalize \/ Return

SpecSession == InitSession /\ [][NextSession]_vars

-----------------------------------------------------------------------------
(* Inputs                                                                  *)

NameChars == {"A", "e'"}

\* every name of at most MaxNameLen characters
Names == UNION {[1..k -> NameChars] : k \in 0..MaxNameLen}

\* "0be4df61-93ca-11d2-aa0d-00e098032b8c"
GuidA ==
    << "0", "b", "e", "4", "d", "f", "6", "1", "-", "9", "3", "c", "a", "-", "1", "1", "d", "2", "-", "a", "a", "0", "d", "-", "0", "0", "e", "0", "9", "8", "0", "3", "2", "b", "8", "c" >>

\* "12345678-9abc-def0-1234-56789abcdef0"
GuidB ==
    << "1", "2", "3", "4", "5", "6", "7", "8", "-", "9", "a", "b", "c", "-", "d", "e", "f", "0", "-", "1", "2", "3", "4", "-", "5", "6", "7", "8", "9", "a", "b", "c", "d", "e", "f", "0" >>

Guids == {GuidA, GuidB}

\* the statuses the driver answers with: success, buffer too small, not found
Statuses == {0, 5, 14}

\* how one GetEfiVar exchange can end: the ioctl raises, or the driver answers
GetOutcomes ==
    {IOErr} \cup [t : {"resp"}, new_size : 0..MaxNewSize, status : Statuses, attr : {7}]

\* the probe's outcomes: a "buffer too small" answer announces at most MaxGrow bytes
ProbeOutcomes ==
    {o \in GetOutcomes : (o.t = "resp" /\ o.status = 5) => o.new_size <= MaxGrow}

-----------------------------------------------------------------------------
(* EFI GET against an arbitrary driver                                     *)

\* get_EFI_variable(name, guid) -> kern_get_EFI_variable -> kern_get_EFI_variable_full
get_EFI_variable ==
    /\ pc = "idle"
    /\ \E n \in Names, g \in Guids, o1 \in ProbeOutcomes :
         \* o2 is consulted only when a second exchange is made
         \E o2 \in (IF o1.t = "resp" /\ GetNeedsRetry(o1.status) THEN GetOutcomes ELSE {IOErr}) :
           \E r \in {kern_get_EFI_variable_full(n, g, o1, o2)} :
               /\ pc' = "get_done"
               /\ name' = n
               /\ guid' = g
               /\ buffer' = r.buffer
               /\ data_size' = r.data_size
               /\ new_size' = r.new_size
               /\ status' = r.status
               /\ calls' = r.calls
               /\ resps' = IF Len(r.calls) = 2 THEN << o1, o2 >> ELSE << o1 >>
               /\ log' = r.log
               /\ full' = r.full
               /\ ret' = kern_get_EFI_variable(r)
               /\ effects' = [i \in 1..Len(r.calls) |-> "ioctl"]
               /\ value' = PyNone
               /\ UNCHANGED <<varlist, op, trace, platformVars, sessionVars, memVars>>

InitGet == Idle /\ NoPlatform /\ SessionStarted

NextGet == get_EFI_variable \/ Return

SpecGet == InitGet /\ [][NextGet]_vars


-----------------------------------------------------------------------------
(* kern_set_EFI_variable                                                   *)

\* SetEfiVar response: the driver puts (size, status) in the first two words
DriverWriteSet(buf, o) ==
    LET hdr == PackI(o.size) \o PackI(o.status)
    IN  [i \in 1..Len(buf) |-> IF i <= Len(hdr) THEN hdr[i] ELSE buf[i]]

\* `if value:` holds of a non-empty str or bytes
Truthy(val) == Len(val.v) > 0

\* the declared data length taken from the substituted one-byte value
SetDataLen_substituted(val) == IF Truthy(val) THEN Len(val.v) ELSE 1

\* datalen: len(value), or 0 when the value is empty
SetDataLen(val) == IF Truthy(val) THEN Len(val.v) ELSE 0

\* value as packed: an empty value is replaced by struct.pack('B', 0x0)
SetValueBytes(val) == IF Truthy(val) THEN val.v ELSE << 0 >>

\* data_size = header_size + namelen + datalen
SetDataSize(n, val) == set_header_size + Len(n) + SetDataLen(val)

\* struct.pack('15I' + str(namelen) + 's' + str(datalen) + 's', data_size, guid0..guid10,
\*             attr, namelen, datalen, name.encode('utf-8'), value)
SetRequest(n, g, val, attr) ==
    PackWords(<< SetDataSize(n, val) >> \o GuidFields(g)
              \o << attr, Len(n), SetDataLen(val) >>)
    \o PackS(Len(n), Encode(n))
    \o PackS(SetDataLen(val), SetValueBytes(val))

\* the remount whatever the status
SetRemounts_always(st) == TRUE

\* else-branch of `if (status != 0)`: the efivarfs remount
SetRemounts(st) == ~(st # 0)

\* the whole call against a transport whose exchange ends as o
kern_set_EFI_variable(n, g, val, attr, o) ==
    LET req == SetRequest(n, g, val, attr)
        c == [nr |-> IOCTL_SET_EFIVAR, buf |-> req]
    IN  IF o.t = "IOError"
        THEN [ret |-> PyRaise("IOError"), calls |-> << c >>, buffer |-> req, log |-> << >>,
              effects |-> << "ioctl" >>, data_size |-> SetDataSize(n, val),
              new_size |-> -1, status |-> -1]
        ELSE
        LET b == DriverWriteSet(req, o)
            size == UnpackI(PySlice(b, 0, 4))
            st == UnpackI(PySlice(b, 4, 8))
        IN  [ret |-> PyInt(st), calls |-> << c >>, buffer |-> b,
             log |-> IF st # 0
                     THEN << [msg |-> "Setting EFI (SET_EFIVAR) variable did not succeed",
                              status |-> status_dict(st), code |-> st] >>
                     ELSE << >>,
             effects |-> IF SetRemounts(st) THEN << "ioctl", "remount" >> ELSE << "ioctl" >>,
             data_size |-> SetDataSize(n, val), new_size |-> size, status |-> st]

\* one kern_set_EFI_variable call; store2 is the firmware's store after the
\* driver has served the request
KernSet(n, g, val, o, store2, done) ==
    /\ pc = "idle"
    /\ \E r \in {kern_set_EFI_variable(n, g, val, set_attr_default, o)} :
         /\ pc' = done
         /\ name' = n
         /\ guid' = g
         /\ buffer' = r.buffer
         /\ data_size' = r.data_size
         /\ new_size' = r.new_size
         /\ status' = r.status
         /\ calls' = r.calls
         /\ resps' = << o >>
         /\ log' = r.log
         /\ full' = Pending
         /\ ret' = r.ret
         /\ effects' = r.effects
         /\ value' = val
         /\ store' = store2
         \* 'umount ...; mount -t efivarfs ...': the filesystem shows the store again
         /\ efivarfs' = IF "remount" \in {r.effects[i] : i \in 1..Len(r.effects)}
                        THEN store2 ELSE efivarfs
         /\ efidir' = efidir
         /\ UNCHANGED <<varlist, op, trace, sessionVars, memVars>>

\* the values a caller sets: byte strings of at most MaxValueLen bytes
ValueBytes == {0, 65}

Values == {PyBytes(b) : b \in UNION {[1..k -> ValueBytes] : k \in 0..MaxValueLen}}

\* how the SetEfiVar exchange can end
SetOutcomes == {IOErr} \cup [t : {"resp"}, size : {0, 1}, status : {0, 8, 14}]

\* set_EFI_variable(name, guid, data, datasize)
set_EFI_variable ==
    \E n \in Names, g \in Guids, val \in Values, o \in SetOutcomes :
        /\ KernSet(n, g, val, o, store, "set_done")
        /\ deleted' = deleted

\* delete_EFI_variable(name, guid): kern_set_EFI_variable(name, guid, "")
delete_EFI_variable ==
    \E n \in Names, g \in Guids, o \in SetOutcomes :
        /\ KernSet(n, g, PyStr(<< >>), o, store, "set_done")
        /\ deleted' = [name |-> n, guid |-> g]

InitSet == Idle /\ NoPlatform /\ SessionStarted

NextSet == set_EFI_variable \/ delete_EFI_variable \/ Return

SpecSet == InitSet /\ [][NextSet]_vars

-----------------------------------------------------------------------------
(* A simulated driver over the firmware's variable store, and the variable *)
(* filesystem                                                              *)

\* the variables a platform may hold: one-character names under both GUIDs,
\* each with StoredSize bytes of data
PlatformVariables == {[name |-> n, guid |-> g] : n \in {m \in Names : Len(m) = 1}, g \in Guids}

\* how a request names a variable: the eleven GUID words and the name bytes
VarKey(v) == << GuidFields(v.guid), Encode(v.name) >>

\* words 1..11 after the declared size
ReqGuid(req) == [i \in 1..11 |-> UnpackI(SubSeq(req, 4 * i + 1, 4 * i + 4))]

\* the stored variables a GetEfiVar request names
SimGetFound(st, req) ==
    LET namelen == UnpackI(SubSeq(req, 49, 52))
    IN  {v \in st : VarKey(v) = << ReqGuid(req), SubSeq(req, 53, 52 + namelen) >>}

\* GetEfiVar: not found, buffer too small for the data, or success
SimGetOutcome(st, req) ==
    LET namelen == UnpackI(SubSeq(req, 49, 52))
        room == Len(req) - get_header_size - namelen
    IN  IF SimGetFound(st, req) = {}
        THEN [t |-> "resp", new_size |-> 0, status |-> 14, attr |-> 0]
        ELSE IF StoredSize > room
        THEN [t |-> "resp", new_size |-> StoredSize, status |-> 5, attr |-> 0]
        ELSE [t |-> "resp", new_size |-> StoredSize, status |-> 0, attr |-> 7]

\* the stored variables a SetEfiVar request names
SimSetFound(st, req) ==
    LET namelen == UnpackI(SubSeq(req, 53, 56))
    IN  {v \in st : VarKey(v) = << ReqGuid(req), SubSeq(req, 61, 60 + namelen) >>}

\* SetEfiVar with data length 0 removes the variable named; the simulated
\* driver serves nothing else
SimSetOutcome(st, req) ==
    IF UnpackI(SubSeq(req, 57, 60)) # 0
    THEN [t |-> "resp", size |-> 0, status |-> 3]
    ELSE IF SimSetFound(st, req) = {}
    THEN [t |-> "resp", size |-> 0, status |-> 14]
    ELSE [t |-> "resp", size |-> 0, status |-> 0]

SimSetStore(st, req) ==
    IF UnpackI(SubSeq(req, 57, 60)) # 0 THEN st ELSE st \ SimSetFound(st, req)

\* the directory entry of a variable: <name>-<guid>
EntryName(v) == v.name \o << "-" >> \o v.guid

\* os.listdir: the entries of the shown variables, in any order
Listings(shown) ==
    {[i \in 1..Cardinality(shown) |-> EntryName(f[i])] :
        f \in {h \in [1..Cardinality(shown) -> shown] :
                  \A i, j \in 1..Cardinality(shown) : h[i] = h[j] => i = j}}

\* entries of the directory that are no variable: the control file new_var
\* of /sys/firmware/efi/vars, and an entry of a dash and a GUID, 37 characters
DirFiles == {<< "n", "e", "w", "_", "v", "a", "r" >>, << "-" >> \o GuidA}

\* s with x put in before position k
InsertAt(s, k, x) == SubSeq(s, 1, k - 1) \o << x >> \o SubSeq(s, k, Len(s))

\* os.listdir of the directory: the variables' entries, with or without one
\* of the other entries among them
DirListings(shown) ==
    Listings(shown) \cup
    {InsertAt(l, k, x) : l \in Listings(shown), k \in 1..(Cardinality(shown) + 1),
                         x \in DirFiles}

-----------------------------------------------------------------------------
(* kern_list_EFI_variables                                                 *)

\* v[:-37]
ListName(v) == IF Len(v) <= 37 THEN << >> ELSE SubSeq(v, 1, Len(v) - 37)

\* v[len(name) + 1:]
ListGuid(v) == PyTail(v, Len(ListName(v)) + 1)

\* kern_get_EFI_variable_full(name, guid) served by the simulated driver
GetFromStore(st, n, g) ==
    kern_get_EFI_variable_full(n, g,
        SimGetOutcome(st, GetProbeRequest(n, g)),
        SimGetOutcome(st,
            GetRetryRequest(n, g, SimGetOutcome(st, GetProbeRequest(n, g)).new_size)))

\* the loop without `variables[name] = []`: a record is appended to the list
\* the name already has
RECURSIVE ListLoop_appends(_, _, _, _)
ListLoop_appends(vl, i, acc, st) ==
    IF i > Len(vl) THEN acc
    ELSE LET n == ListName(vl[i])
             g == ListGuid(vl[i])
         IN  IF n # << >>
             THEN LET r == GetFromStore(st, n, g)
                      had == IF n \in DOMAIN acc.variables THEN acc.variables[n] ELSE << >>
                  IN  IF r.raised
                      THEN [acc EXCEPT !.raised = TRUE, !.calls = @ \o r.calls,
                                       !.gets = Append(@, [name |-> n, guid |-> g])]
                      ELSE ListLoop_appends(vl, i + 1,
                               [raised |-> FALSE,
                                variables |-> (n :> (had \o << r.full >>)) @@ acc.variables,
                                calls |-> acc.calls \o r.calls,
                                gets |-> Append(acc.gets, [name |-> n, guid |-> g])], st)
             ELSE ListLoop_appends(vl, i + 1, acc, st)

\* the loop over varlist from entry i on; acc is [variables, calls, gets],
\* gets the (name, guid) of every kern_get_EFI_variable_full call made
RECURSIVE ListLoop(_, _, _, _)
ListLoop(vl, i, acc, st) ==
    IF i > Len(vl) THEN acc
    ELSE LET n == ListName(vl[i])
             g == ListGuid(vl[i])
         IN  IF n # << >>
             THEN LET r == GetFromStore(st, n, g)
                  IN  IF r.raised
                      THEN [acc EXCEPT !.raised = TRUE, !.calls = @ \o r.calls,
                                       !.gets = Append(@, [name |-> n, guid |-> g])]
                      ELSE ListLoop(vl, i + 1,
                               [raised |-> FALSE,
                                variables |-> (n :> << r.full >>) @@ acc.variables,
                                calls |-> acc.calls \o r.calls,
                                gets |-> Append(acc.gets, [name |-> n, guid |-> g])], st)
             ELSE ListLoop(vl, i + 1, acc, st)

\* kern_list_EFI_variables over the listing vl of the directory that exists
kern_list_EFI_variables(dir, vl, st) ==
    IF dir = "none"
    THEN [ret |-> PyNone, calls |-> << >>, gets |-> << >>]
    ELSE LET r == ListLoop(vl, 1, [raised |-> FALSE, variables |-> << >>, calls |-> << >>,
                                   gets |-> << >>], st)
         IN  IF r.raised
             THEN [ret |-> PyRaise("IOError"), calls |-> r.calls, gets |-> r.gets]
             ELSE [ret |-> [t |-> "dict", v |-> r.variables], calls |-> r.calls,
                   gets |-> r.gets]

\* list_EFI_variables()
list_EFI_variables ==
    /\ pc = "idle"
    /\ \E vl \in (IF efidir = "none" THEN {<< >>} ELSE DirListings(efivarfs)) :
         \E r \in {kern_list_EFI_variables(efidir, vl, store)} :
           /\ pc' = "list_done"
           /\ varlist' = vl
           /\ calls' = r.calls
           /\ effects' = [i \in 1..Len(r.calls) |-> "ioctl"]
           /\ ret' = r.ret
           /\ trace' = r.gets
           /\ UNCHANGED <<name, guid, buffer, data_size, new_size, status, resps, log, full,
                          value, op, platformVars, sessionVars, memVars>>

\* delete_EFI_variable(name, guid) served by the simulated driver
delete_stored_variable ==
    \E n \in {m \in Names : Len(m) = 1}, g \in Guids :
      \E req \in {SetRequest(n, g, PyStr(<< >>), set_attr_default)} :
        /\ KernSet(n, g, PyStr(<< >>), SimSetOutcome(store, req), SimSetStore(store, req),
                   "set_done")
        /\ deleted' = [name |-> n, guid |-> g]

InitStore ==
    /\ Idle
    /\ store \in SUBSET PlatformVariables
    /\ efivarfs = store
    /\ efidir \in {"efivars", "vars", "none"}
    /\ deleted = PyNone
    /\ SessionStarted

NextStore == delete_stored_variable \/ list_EFI_variables \/ Return

SpecStore == InitStore /\ [][NextStore]_vars

-----------------------------------------------------------------------------
(* Register and memory operations: one packed request, one control call    *)

\* values the operations are called with: n consecutive arguments
RegArgs == {1, 2}
ArgTuples(n) == {[i \in 1..n |-> a + i - 1] : a \in RegArgs}

\* access widths of the IO and MMIO operations
Sizes == {1, 2, 4}

PyTuple(s) == [t |-> "tuple", v |-> s]

\* one field of format self._pack: 'I' is 4 bytes, 'Q' is 8 (values below 2^31)
PackW(pk, v) == IF pk = "Q" THEN PackI(v) \o <<0, 0, 0, 0>> ELSE PackI(v)

\* struct.pack("<n>" + self._pack, *ws)
Pack(pk, ws) == Concat([i \in 1..Len(ws) |-> PackW(pk, ws[i])])

\* one field of format self._pack read back
UnpackW(pk, b) ==
    IF pk = "Q" /\ UnpackI(SubSeq(b, 5, 8)) # 0
    THEN UnpackI(SubSeq(b, 1, 4)) + 65536 * 65536 * UnpackI(SubSeq(b, 5, 8))
    ELSE UnpackI(SubSeq(b, 1, 4))

\* struct.unpack("<n>" + self._pack, b)
Unpack(n, pk, b) ==
    [i \in 1..n |-> UnpackW(pk, SubSeq(b, (i - 1) * calcsize(pk) + 1, i * calcsize(pk)))]

\* defines.unpack1(reg, size): the little-endian integer of size bytes
RECURSIVE unpack1(_, _)
unpack1(reg, size) ==
    IF size = 0 THEN 0 ELSE reg[1] + 256 * unpack1(Tail(reg), size - 1)

\* value & 0xff, & 0xffff, & 0xffffffff (the model's words are below 2^31)
MaskToSize(size, v) ==
    IF size = 1 THEN v % 256 ELSE IF size = 2 THEN v % 65536 ELSE v

\* the words the driver leaves in a response of n words: fcntl.ioctl hands
\* back a buffer as long as the request
RespValues == {0, 1, 2}
Responses(pk, n) == {Pack(pk, [i \in 1..n |-> v + i]) : v \in RespValues}

\* self.ioctl(nr, args) for a request of n words: how
\* fcntl.ioctl(self.dev_fh, self._ioctl_base + nr, args) can end
ioctl(n) ==
    IF ioctl_base = NoBase THEN {PyRaise("AttributeError")}
    ELSE IF dev_fh = 0 THEN {PyRaise("TypeError")}
    ELSE {IOErr} \cup {PyBytes(r) : r \in Responses(pack, n)}

\* the control call reached the driver's transport
Issued(out) == out.t \in {"bytes", "IOError"}

\* the process's affinity after os.sched_setaffinity(os.getpid(), {thread_id})
\* has succeeded, or has raised (set_affinity then returns None)
set_affinity(thread_id, ok) == IF ok THEN {thread_id} ELSE affinity

\* what an operation did, in order
CallEvent(t, args) ==
    [e |-> "call", cpu |-> t, ok |-> TRUE, nr |-> 0, id |-> NoBase, req |-> args,
     aff |-> affinity, out |-> PyNone]

PinEvent(t, ok) ==
    [e |-> "pin", cpu |-> t, ok |-> ok, nr |-> 0, id |-> NoBase, req |-> << >>,
     aff |-> set_affinity(t, ok), out |-> PyNone]

IoctlEvent(nr, req, aff, out) ==
    [e |-> "ioctl", cpu |-> 0, ok |-> out.t = "bytes", nr |-> nr,
     id |-> IoctlId(ioctl_base, nr), req |-> req, aff |-> aff, out |-> out]

\* in_buf = struct.pack(...); self.ioctl(nr, in_buf)
Exchange(nr, req, aff, out) ==
    IF Issued(out) THEN << IoctlEvent(nr, req, aff, out) >> ELSE << >>

\* an exception the operation does not catch reaches its caller
Propagate(out) == IF out = IOErr THEN PyRaise("IOError") ELSE out

\* try: self.ioctl(...) except IOError: return None
PciResult_uncaught(out) ==
    IF out.t = "bytes" THEN PyInt(Unpack(5, pack, out.v)[5]) ELSE Propagate(out)

\* read_pci_reg / write_pci_reg: None on IOError, else x[4]
PciResult(out) ==
    IF out = IOErr THEN PyNone
    ELSE IF out.t = "bytes" THEN PyInt(Unpack(5, pack, out.v)[5]) ELSE Propagate(out)

\* struct.unpack("<n>" + self._pack, out_buf)[k - 1]
WordResult(k, n, out) ==
    IF out.t = "bytes" THEN PyInt(Unpack(n, pack, out.v)[k]) ELSE Propagate(out)

\* struct.unpack("<n>" + self._pack, out_buf)
TupleResult(n, out) ==
    IF out.t = "bytes" THEN PyTuple(Unpack(n, pack, out.v)) ELSE Propagate(out)

\* an operation that returns nothing
NoResult(out) == IF out.t = "bytes" THEN PyNone ELSE Propagate(out)

\* an operation that is not bound to a core
RegOp(o, args, nr, words, out, result) ==
    /\ trace' = << CallEvent(0, args) >> \o Exchange(nr, Pack(pack, words), affinity, out)
    /\ UNCHANGED sessionVars
    /\ Finished(o, result)

\* an operation bound to a core: self.set_affinity(t) first, its result unused
CoreOp(o, t, pinned, args, nr, words, out, result) ==
    /\ affinity' = set_affinity(t, pinned)
    /\ trace' = << CallEvent(t, args), PinEvent(t, pinned) >>
                  \o Exchange(nr, Pack(pack, words), affinity', out)
    /\ UNCHANGED <<x64, pack, ioctl_base, dev_fh, dev_mem, driver_loaded, module, handles>>
    /\ Finished(o, result)

\* the CPUID leaf 0x80000008 as the bytes of one packed field
MaxPaLeaf == IF pack = "Q" THEN <<8, 0, 0, 128, 0, 0, 0, 0>> ELSE <<8, 0, 0, 128>>

\* pa > 1 << max_pa
Va2paResult(out1, out2) ==
    IF out1.t # "bytes" THEN Propagate(out1)
    ELSE IF out2.t # "bytes" THEN Propagate(out2)
    ELSE LET pa == Unpack(1, pack, out1.v)[1]
             max_pa == Unpack(4, pack, out2.v)[1] % 256
         IN  PyTuple(<< pa, IF pa > Pow2(max_pa) THEN 1 ELSE 0 >>)

va2pa ==
    /\ pc = "idle"
    /\ \E a \in ArgTuples(1), out1 \in ioctl(1) :
       \E out2 \in (IF out1.t = "bytes" THEN ioctl(4) ELSE {PyNone}) :
         /\ trace' = << CallEvent(0, a) >>
                       \o Exchange(IOCTL_VA2PA, Pack(pack, a), affinity, out1)
                       \o Exchange(IOCTL_CPUID, MaxPaLeaf \o Pack(pack, <<0, 0, 0>>),
                                   affinity, out2)
         /\ UNCHANGED sessionVars
         /\ Finished("va2pa", Va2paResult(out1, out2))

\* read_pci_reg(bus, device, function, offset, size)
read_pci_reg ==
    /\ pc = "idle"
    /\ \E a \in ArgTuples(5), out \in ioctl(5) :
         RegOp("read_pci_reg", a, IOCTL_RDPCI,
               << a[1], a[2] * 65536 + a[3], a[4], a[5], 0 >>, out, PciResult(out))

\* write_pci_reg(bus, device, function, offset, value, size)
write_pci_reg ==
    /\ pc = "idle"
    /\ \E a \in ArgTuples(6), out \in ioctl(5) :
         RegOp("write_pci_reg", a, IOCTL_WRPCI,
               << a[1], a[2] * 65536 + a[3], a[4], a[6], a[5] >>, out, PciResult(out))

\* load_ucode_update(cpu_thread_id, ucode_update_buf): array.array("c", in_buf)
\* raises ValueError, "c" is no typecode of the interpreter the module needs
load_ucode_update ==
    /\ pc = "idle"
    /\ \E a \in ArgTuples(2) :
         /\ trace' = << CallEvent(0, a) >>
         /\ UNCHANGED sessionVars
         /\ Finished("load_ucode_update", PyRaise("ValueError"))

\* struct.unpack("<n>" + self._pack, out_buf) needs exactly n fields of bytes
Decodes(n, out) == Len(out.v) = n * calcsize(pack)

\* what self.ioctl can hand to read_io_port: besides the answers of ioctl(3),
\* a third word wider than two bytes, and a buffer that is not three words
\* long (the case the handler at the unpack is written for)
IoOutcomes ==
    ioctl(3) \cup
    (IF IOErr \in ioctl(3)
     THEN {PyBytes(Pack(pack, << 1, 2, 66051 >>)), PyBytes(Pack(pack, << 1, 2 >>))}
     ELSE {})

\* logger().log_debug(...)
LogEvent(text) ==
    [e |-> "log", cpu |-> 0, ok |-> TRUE, nr |-> 0, id |-> NoBase, req |-> << >>,
     aff |-> affinity, out |-> PyStr(text)]

\* the except branch of read_io_port: the unpack failed
IoDiagnostic(out) ==
    IF out.t = "bytes" /\ ~Decodes(3, out)
    THEN << LogEvent("DeviceIoControl did not return value of proper size") >>
    ELSE << >>

\* read_io_port's return value: `value` is bound only when the unpack
\* succeeded, so `return value` after the except branch raises
IoResult(size, out) ==
    IF out.t # "bytes" THEN Propagate(out)
    ELSE IF Decodes(3, out) THEN PyInt(MaskToSize(size, Unpack(3, pack, out.v)[3]))
    ELSE PyRaise("UnboundLocalError")

\* read_io_port(io_port, size)
read_io_port ==
    /\ pc = "idle"
    /\ \E a \in ArgTuples(1), size \in Sizes, out \in IoOutcomes :
         /\ trace' = << CallEvent(0, a \o << size >>) >>
                       \o Exchange(IOCTL_RDIO, Pack(pack, << a[1], size, 0 >>), affinity, out)
                       \o IoDiagnostic(out)
         /\ UNCHANGED sessionVars
         /\ Finished("read_io_port", IoResult(size, out))

\* write_io_port(io_port, value, size): the control call's result is the result
write_io_port ==
    /\ pc = "idle"
    /\ \E a \in ArgTuples(2), size \in Sizes, out \in ioctl(3) :
         RegOp("write_io_port", a \o << size >>, IOCTL_WRIO, << a[1], size, a[2] >>, out,
               Propagate(out))

\* read_cr(cpu_thread_id, cr_number)
read_cr ==
    /\ pc = "idle"
    /\ \E t \in Cpus, pinned \in BOOLEAN, a \in ArgTuples(1), out \in ioctl(3) :
         CoreOp("read_cr", t, pinned, << t >> \o a, IOCTL_RDCR, << t, a[1], 0 >>, out,
                WordResult(3, 3, out))

\* write_cr(cpu_thread_id, cr_number, value)
write_cr ==
    /\ pc = "idle"
    /\ \E t \in Cpus, pinned \in BOOLEAN, a \in ArgTuples(2), out \in ioctl(3) :
         CoreOp("write_cr", t, pinned, << t >> \o a, IOCTL_WRCR, << t, a[1], a[2] >>, out,
                NoResult(out))

\* (unbuf[3], unbuf[2])
MsrResult(out) ==
    IF out.t = "bytes"
    THEN PyTuple(<< Unpack(4, pack, out.v)[4], Unpack(4, pack, out.v)[3] >>)
    ELSE Propagate(out)

\* read_msr(thread_id, msr_addr)
read_msr ==
    /\ pc = "idle"
    /\ \E t \in Cpus, pinned \in BOOLEAN, a \in ArgTuples(1), out \in ioctl(4) :
         CoreOp("read_msr", t, pinned, << t >> \o a, IOCTL_RDMSR, << t, a[1], 0, 0 >>, out,
                MsrResult(out))

\* write_msr(thread_id, msr_addr, eax, edx)
write_msr ==
    /\ pc = "idle"
    /\ \E t \in Cpus, pinned \in BOOLEAN, a \in ArgTuples(3), out \in ioctl(4) :
         CoreOp("write_msr", t, pinned, << t >> \o a, IOCTL_WRMSR,
                << t, a[1], a[3], a[2] >>, out, NoResult(out))

\* (limit, base, pa)
DescriptorResult(out) ==
    IF out.t = "bytes"
    THEN LET u == Unpack(5, pack, out.v)
         IN  PyTuple(<< Wide(0, u[1]), Wide(u[2], u[3]), Wide(u[4], u[5]) >>)
    ELSE Propagate(out)

\* get_descriptor_table(cpu_thread_id, desc_table_code)
get_descriptor_table ==
    /\ pc = "idle"
    /\ \E t \in Cpus, pinned \in BOOLEAN, a \in ArgTuples(1), out \in ioctl(5) :
         CoreOp("get_descriptor_table", t, pinned, << t >> \o a,
                IOCTL_GET_CPU_DESCRIPTOR_TABLE, << t, a[1], 0, 0, 0 >>, out,
                DescriptorResult(out))

\* cpuid(eax, ecx)
cpuid ==
    /\ pc = "idle"
    /\ \E a \in ArgTuples(2), out \in ioctl(4) :
         RegOp("cpuid", a, IOCTL_CPUID, << a[1], 0, a[2], 0 >>, out, TupleResult(4, out))

\* alloc_phys_mem(num_bytes, max_addr)
alloc_phys_mem ==
    /\ pc = "idle"
    /\ \E a \in ArgTuples(2), out \in ioctl(2) :
         RegOp("alloc_phys_mem", a, IOCTL_ALLOC_PHYSMEM, a, out, TupleResult(2, out))

\* free_phys_mem(physmem)
free_phys_mem ==
    /\ pc = "idle"
    /\ \E a \in ArgTuples(1), out \in ioctl(1) :
         RegOp("free_phys_mem", a, IOCTL_FREE_PHYSMEM, a, out, WordResult(1, 1, out))

\* defines.unpack1(out_buf[:size], size)
MmioResult(size, out) ==
    IF out.t = "bytes" THEN PyInt(unpack1(PySlice(out.v, 0, size), size))
    ELSE Propagate(out)

\* read_mmio_reg(bar_base, size, offset)
read_mmio_reg ==
    /\ pc = "idle"
    /\ \E a \in ArgTuples(2), size \in Sizes, out \in ioctl(2) :
         RegOp("read_mmio_reg", a \o << size >>, IOCTL_RDMMIO, << a[1] + a[2], size >>, out,
               MmioResult(size, out))

\* write_mmio_reg(bar_base, size, value, offset)
write_mmio_reg ==
    /\ pc = "idle"
    /\ \E a \in ArgTuples(3), size \in Sizes, out \in ioctl(3) :
         RegOp("write_mmio_reg", a \o << size >>, IOCTL_WRMMIO,
               << a[1] + a[3], size, a[2] >>, out, NoResult(out))

\* msgbus_send_read_message(mcr, mcrx)
msgbus_send_read_message ==
    /\ pc = "idle"
    /\ \E a \in ArgTuples(2), out \in ioctl(5) :
         RegOp("msgbus_send_read_message", a, IOCTL_MSGBUS_SEND_MESSAGE,
               << MSGBUS_MDR_OUT_MASK, a[1], a[2], 0, 0 >>, out, WordResult(5, 5, out))

\* msgbus_send_write_message(mcr, mcrx, mdr)
msgbus_send_write_message ==
    /\ pc = "idle"
    /\ \E a \in ArgTuples(3), out \in ioctl(5) :
         RegOp("msgbus_send_write_message", a, IOCTL_MSGBUS_SEND_MESSAGE,
               << MSGBUS_MDR_IN_MASK, a[1], a[2], a[3], 0 >>, out, NoResult(out))

\* msgbus_send_message(mcr, mcrx, mdr=None); 3 is IN_MASK | OUT_MASK
msgbus_send_message ==
    /\ pc = "idle"
    /\ \E a \in ArgTuples(3), given \in BOOLEAN, out \in ioctl(5) :
         RegOp("msgbus_send_message", IF given THEN a ELSE SubSeq(a, 1, 2),
               IOCTL_MSGBUS_SEND_MESSAGE,
               IF given THEN << 3, a[1], a[2], a[3], 0 >>
                        ELSE << MSGBUS_MDR_OUT_MASK, a[1], a[2], 0, 0 >>,
               out, WordResult(5, 5, out))

\* hypercall(rcx, rdx, r8, r9, r10, r11, rax, rbx, rdi, rsi, xmm_buffer)
hypercall ==
    /\ pc = "idle"
    /\ \E a \in ArgTuples(11), out \in ioctl(11) :
         RegOp("hypercall", a, IOCTL_HYPERCALL, a, out, WordResult(1, 11, out))

\* send_sw_smi(cpu_thread_id, SMI_code_data, _rax, _rbx, _rcx, _rdx, _rsi, _rdi)
send_sw_smi ==
    /\ pc = "idle"
    /\ \E t \in Cpus, pinned \in BOOLEAN, a \in ArgTuples(7), out \in ioctl(7) :
         CoreOp("send_sw_smi", t, pinned, << t >> \o a, IOCTL_SWSMI, a, out,
                TupleResult(7, out))

PerCoreOps ==
    {"read_cr", "write_cr", "read_msr", "write_msr", "get_descriptor_table", "send_sw_smi"}

RegisterOps ==
    PerCoreOps \cup
    {"va2pa", "read_pci_reg", "write_pci_reg", "load_ucode_update", "read_io_port",
     "write_io_port", "cpuid", "alloc_phys_mem", "free_phys_mem", "read_mmio_reg",
     "write_mmio_reg", "msgbus_send_read_message", "msgbus_send_write_message",
     "msgbus_send_message", "hypercall"}

\* a new LinuxHelper on a machine where the module is inserted
InitReg == Idle /\ NoPlatform /\ Fresh /\ module

NextReg ==
    \/ init \/ close
    \/ va2pa \/ read_pci_reg \/ write_pci_reg \/ load_ucode_update
    \/ read_io_port \/ write_io_port
    \/ read_cr \/ write_cr \/ read_msr \/ write_msr \/ get_descriptor_table
    \/ cpuid \/ alloc_phys_mem \/ free_phys_mem \/ read_mmio_reg \/ write_mmio_reg
    \/ msgbus_send_read_message \/ msgbus_send_write_message \/ msgbus_send_message
    \/ hypercall \/ send_sw_smi
    \/ Return

SpecReg == InitReg /\ [][NextReg]_vars

-----------------------------------------------------------------------------
(* read_phys_mem / write_phys_mem: seek, then transfer, on the one handle  *)
(* the session holds; a thread can run between the two steps of another    *)

\* (phys_address_hi, phys_address_lo) of the calls
PhysArgs == {<<0, 8>>, <<1, 0>>}

\* length of the reads
Lengths == {4}

\* newval of the writes
NewVals == {PyNone, PyBytes(<<7>>)}

\* phys_address_hi | phys_address_lo: the shift by 32 left out
PhysAddr_unshifted(hi, lo) == Wide(0, hi + lo)

\* addr = (phys_address_hi << 32) | phys_address_lo, for halves below 2^32
PhysAddr(hi, lo) == Wide(hi, lo)

\* the position n bytes after w
Advance(w, n) == Wide(w.hi, w.lo + n)

\* self.dev_fh.read(sz) at position at: the sz bytes found there
MemRead(at, sz) == [t |-> "bytes", at |-> at, n |-> sz]

\* another thread has used the handle since this thread's seek
Crossed(t) == IF t.pc = "sought" THEN [t EXCEPT !.crossed = TRUE] ELSE t

\* the thread th is past self.dev_fh.seek(addr) of its call
Sought(th, o, a, sz, nv) ==
    [u \in Threads |->
        IF u = th
        THEN [pc |-> "sought", op |-> o, hi |-> a[1], lo |-> a[2], length |-> sz,
              newval |-> nv, at |-> Wide(0, 0), crossed |-> FALSE, ret |-> Pending]
        ELSE Crossed(threads[u])]

\* the thread th has returned r without a transfer
Ended(th, o, a, sz, nv, r) ==
    [threads EXCEPT ![th] =
        [pc |-> "done", op |-> o, hi |-> a[1], lo |-> a[2], length |-> sz,
         newval |-> nv, at |-> Wide(0, 0), crossed |-> FALSE, ret |-> r]]

\* read_phys_mem(phys_address_hi, phys_address_lo, length), up to the seek
read_phys_mem ==
    \E th \in Threads, a \in PhysArgs, sz \in Lengths :
        /\ threads[th].pc = "idle"
        /\ IF dev_fh = 0
           THEN /\ threads' = Ended(th, "read", a, sz, PyNone, PyRaise("AttributeError"))
                /\ fpos' = fpos
           ELSE /\ fpos' = [fpos EXCEPT ![dev_fh] = PhysAddr(a[1], a[2])]
                /\ threads' = Sought(th, "read", a, sz, PyNone)
        /\ UNCHANGED <<callVars, platformVars, sessionVars>>

\* write_phys_mem(phys_address_hi, phys_address_lo, length, newval), up to
\* the seek
write_phys_mem ==
    \E th \in Threads, a \in PhysArgs, sz \in Lengths, nv \in NewVals :
        /\ threads[th].pc = "idle"
        /\ IF nv = PyNone
           THEN /\ threads' = Ended(th, "write", a, sz, nv, PyNone)
                /\ fpos' = fpos
           ELSE IF dev_fh = 0
           THEN /\ threads' = Ended(th, "write", a, sz, nv, PyRaise("AttributeError"))
                /\ fpos' = fpos
           ELSE /\ fpos' = [fpos EXCEPT ![dev_fh] = PhysAddr(a[1], a[2])]
                /\ threads' = Sought(th, "write", a, sz, nv)
        /\ UNCHANGED <<callVars, platformVars, sessionVars>>

\* __mem_block(sz, newval): the transfer, at the position the handle has now
mem_block ==
    \E th \in Threads :
        /\ threads[th].pc = "sought"
        /\ IF dev_fh = 0
           THEN /\ threads' = [threads EXCEPT ![th].pc = "done",
                                               ![th].ret = PyRaise("AttributeError")]
                /\ fpos' = fpos
           ELSE /\ threads' =
                     [u \in Threads |->
                        IF u = th
                        THEN [threads[th] EXCEPT
                                !.pc = "done",
                                !.at = fpos[dev_fh],
                                !.ret = IF threads[th].op = "read"
                                        THEN MemRead(fpos[dev_fh], threads[th].length)
                                        ELSE PyInt(1)]
                        ELSE Crossed(threads[u])]
                /\ fpos' = [fpos EXCEPT ![dev_fh] =
                              Advance(@, IF threads[th].op = "read"
                                         THEN threads[th].length
                                         ELSE Len(threads[th].newval.v))]
        /\ UNCHANGED <<callVars, platformVars, sessionVars>>

\* the thread's caller takes the result
ThreadReturn ==
    \E th \in Threads :
        /\ threads[th].pc = "done"
        /\ threads' = [threads EXCEPT ![th] = IdleThread]
        /\ UNCHANGED <<fpos, callVars, platformVars, sessionVars>>

InitMem == Idle /\ NoPlatform /\ SessionStarted

NextMem == read_phys_mem \/ write_phys_mem \/ mem_block \/ ThreadReturn

SpecMem == InitMem /\ [][NextMem]_vars

-----------------------------------------------------------------------------
(* Properties of EFI GET                                                   *)

GetDone == pc = "get_done"

\* the last exchange of the finished GET was answered by the driver
GetAnswered == GetDone /\ resps[Len(resps)].t = "resp"

\* the request buffer of the last exchange
GetLastRequest == calls[Len(calls)].buf

\* "no data": None or the empty string
NoData(v) == v.t = "None" \/ (v.t = "str" /\ v.v = << >>)

\* C1: one GET issues one or two GetEfiVar control calls, the second only
\* after a probe answered BufferTooSmall (5); when the second answer is
\* BufferTooSmall again the GET ends there, with no data for the caller.
C1_AtMostOneRetry ==
    GetDone =>
        /\ Len(calls) \in {1, 2}
        /\ \A i \in 1..Len(calls) : calls[i].nr = IOCTL_GET_EFIVAR
        /\ Len(calls) = 2 => (resps[1].t = "resp" /\ resps[1].status = 5)
        /\ (Len(calls) = 2 /\ resps[2].t = "resp" /\ resps[2].status = 5) => NoData(ret)

C1_Witness ==
    GetDone /\ Len(calls) = 2 /\ resps[2].t = "resp" /\ resps[2].status = 5

\* C2: the probe request is 52 + len(name) bytes; after a probe answered
\* BufferTooSmall with new_size = N the second request is 52 + len(name) + N
\* bytes, declares that length in its first word, and repeats the GUID
\* fields, the name length and the name of the probe.
C2_RequestSizes ==
    GetDone =>
        /\ Len(calls[1].buf) = 52 + Len(name)
        /\ Len(calls) = 2 =>
             LET N == resps[1].new_size
             IN  /\ Len(calls[2].buf) = 52 + Len(name) + N
                 /\ UnpackI(SubSeq(calls[2].buf, 1, 4)) = 52 + Len(name) + N
                 /\ SubSeq(calls[2].buf, 5, 52 + Len(name))
                      = SubSeq(calls[1].buf, 5, 52 + Len(name))
                 /\ UnpackI(SubSeq(calls[2].buf, 49, 52)) = Len(name)

C2_Witness ==
    GetDone /\ Len(calls) = 2 /\ resps[1].new_size > 0 /\ Len(name) > 0

\* C3: a final new_size larger than the requested buffer yields a reported
\* violation and no data; any data returned is exactly new_size bytes, all of
\* them from the data region of the response (offset 12 onwards).
C3_PayloadExact ==
    /\ (GetAnswered /\ new_size > Len(GetLastRequest)) =>
          (ret = PyNone /\ \E i \in 1..Len(log) : log[i].msg = "Incorrect size returned from driver")
    /\ (GetDone /\ ret.t = "bytes") =>
          /\ Len(ret.v) = new_size
          /\ base + new_size <= Len(buffer)
          /\ \A i \in 1..Len(ret.v) : ret.v[i] = buffer[base + i]

\* the value get_EFI_variable returns when the retry's control call raises
GetTransportFailureData ==
    kern_get_EFI_variable(kern_get_EFI_variable_full(<< >>, GuidA,
        [t |-> "resp", new_size |-> 0, status |-> 5, attr |-> 0], IOErr))

-----------------------------------------------------------------------------
(* Properties of EFI SET                                                   *)

SetDone == pc = "set_done"

\* C9: a SET issues exactly one SetEfiVar control call, with a buffer of
\* 60 + len(name) + len(value) bytes that declares len(value) as its data
\* length (0 for an empty value); it returns the status in the second word of
\* the response, and remounts the variable filesystem, after the control
\* call, exactly when that status is Success.
C9_SetSinglePhase ==
    SetDone =>
        /\ Len(calls) = 1 /\ calls[1].nr = IOCTL_SET_EFIVAR
        /\ LET req == calls[1].buf
               datalen == UnpackI(SubSeq(req, 57, 60))
           IN  /\ Len(req) = 60 + Len(name) + datalen
               /\ UnpackI(SubSeq(req, 1, 4)) = Len(req)
               /\ UnpackI(SubSeq(req, 53, 56)) = Len(name)
               /\ datalen = Len(value.v)
        /\ resps[1].t = "resp" =>
              /\ ret = PyInt(UnpackI(SubSeq(buffer, 5, 8)))
              /\ ret = PyInt(resps[1].status)
              /\ (resps[1].status = 0) <=> (effects = << "ioctl", "remount" >>)
              /\ (resps[1].status # 0) <=> (effects = << "ioctl" >>)
        /\ resps[1].t = "IOError" => (ret = PyRaise("IOError") /\ effects = << "ioctl" >>)

C9_Witness ==
    /\ SetDone /\ resps[1].t = "resp" /\ resps[1].status = 0
    /\ value = PyStr(<< >>) /\ Len(name) > 0 /\ effects = << "ioctl", "remount" >>


-----------------------------------------------------------------------------
(* Properties of DELETE followed by LIST                                   *)

\* the finished LIST shows variable d: its name is a key of the result and
\* its directory entry was among those the LIST read
ListShows(d) ==
    /\ ret.t = "dict"
    /\ d.name \in DOMAIN ret.v
    /\ \E i \in 1..Len(varlist) : varlist[i] = EntryName(d)

\* C10: against the simulated driver and a filesystem that shows the store
\* after a remount, a LIST that follows DELETE(name, guid) does not show the
\* deleted variable, whatever else the store holds.
C10_DeleteThenList ==
    (pc = "list_done" /\ deleted # PyNone) => ~ListShows(deleted)

\* the same for the names whose UTF-8 encoding is one byte per character
C10_DeleteThenListAscii ==
    (pc = "list_done" /\ deleted # PyNone /\ Len(Encode(deleted.name)) = Len(deleted.name))
        => ~ListShows(deleted)


-----------------------------------------------------------------------------
(* Properties of the session's handles                                     *)

C5_HeldHandlesClosed ==
    /\ (pc = "done" /\ op \in {"close", "stop"}) =>
          (ret.t # "raise" /\ dev_fh = 0 /\ dev_mem = 0)
    /\ \A h \in 1..Len(handles) : handles[h].closes <= 1
    /\ \A h \in 1..Len(handles) : (h = dev_fh \/ h = dev_mem) => handles[h].open


-----------------------------------------------------------------------------
(* Properties of the register and memory operations                        *)

RegDone == pc = "done" /\ op \in RegisterOps

\* the control calls of the operation that has just run
IoctlEvents == {i \in 1..Len(trace) : trace[i].e = "ioctl"}

\* one of its control calls failed at transport level
TransportFailed == \E i \in IoctlEvents : trace[i].out = IOErr

\* C6 (as stated): every register/memory operation whose control call fails
\* at transport level returns None and raises nothing to its caller
C6_FailureReturnsNone ==
    (RegDone /\ TransportFailed) => ret = PyNone

\* C6 (amended): read_pci_reg and write_pci_reg return None when their
\* control call fails at transport level; every other operation that issues
\* a control call lets the IOError reach its caller; load_ucode_update issues
\* no control call, it raises ValueError while it builds its request
C6_FailurePolicy ==
    RegDone =>
        /\ TransportFailed =>
              IF op \in {"read_pci_reg", "write_pci_reg"}
              THEN ret = PyNone
              ELSE ret = PyRaise("IOError")
        /\ op = "load_ucode_update" => (IoctlEvents = {} /\ ret = PyRaise("ValueError"))

C6_Witness ==
    /\ RegDone /\ op = "read_pci_reg" /\ TransportFailed /\ ret = PyNone

\* C7 (as stated): a per-core operation called with thread id t pins to t
\* before its control call, issues the control call only while the process
\* affinity is exactly {t}, also when the pin attempt fails, and the MSR, CR
\* and descriptor-table requests carry t in their first word
C7_PinnedControlCall ==
    (pc = "done" /\ op \in PerCoreOps) =>
        \A i \in IoctlEvents :
            /\ \E j \in 1..(i - 1) : trace[j].e = "pin" /\ trace[j].cpu = trace[1].cpu
            /\ trace[i].aff = {trace[1].cpu}
            /\ op # "send_sw_smi" => Unpack(1, pack, trace[i].req)[1] = trace[1].cpu

\* what remains of C7 when the pin may fail: the pin to t is attempted before
\* the control call, the request's first word is t, and the affinity is {t}
\* when the pin succeeded
C7_PinAttempted ==
    (pc = "done" /\ op \in PerCoreOps) =>
        \A i \in IoctlEvents :
            /\ i = 3 /\ trace[2].e = "pin" /\ trace[2].cpu = trace[1].cpu
            /\ trace[2].ok => trace[i].aff = {trace[1].cpu}
            /\ op # "send_sw_smi" => Unpack(1, pack, trace[i].req)[1] = trace[1].cpu

\* the bits (3 << 30) | (0x43 << 8) | (w << 16) sets, counted from bit 0
ControlCodeBits(w) == {31, 30, 14, 9, 8} \cup (IF w = 8 THEN {19} ELSE {18})

Opcodes == 0..22

\* C8: for word width w in {4, 8} the control code of an open session is
\* (3 << 30) | (type tag << 8) | (w << 16), the same in every state of the
\* session; the identifier of every control call issued is code + opcode and
\* equals code | opcode; and for every opcode in 0x0..0x16 (checked between
\* calls) code + opcode = code | opcode, so that two different opcodes never
\* give the same identifier
C8_ControlCode ==
    dev_fh # 0 =>
        /\ calcsize(pack) = (IF x64 THEN 8 ELSE 4)
        /\ \A b \in 0..(IdWidth - 1) :
              ioctl_base[b + 1] = (IF b \in ControlCodeBits(calcsize(pack)) THEN 1 ELSE 0)
        /\ \A i \in IoctlEvents :
              /\ trace[i].nr \in Opcodes
              /\ trace[i].id = OrBits(ioctl_base, ToBits(trace[i].nr))
        /\ pc = "idle" =>
              /\ \A nr \in Opcodes :
                    IoctlId(ioctl_base, nr) = OrBits(ioctl_base, ToBits(nr))
              /\ Cardinality({IoctlId(ioctl_base, nr) : nr \in Opcodes})
                    = Cardinality(Opcodes)

\* a control call with the highest opcode, on a session opened a second time
C8_Witness ==
    /\ pc = "done" /\ op = "free_phys_mem" /\ Len(handles) >= 2
    /\ \E i \in IoctlEvents : trace[i].nr = IOCTL_FREE_PHYSMEM


-----------------------------------------------------------------------------
(* Properties of physical memory access from two threads                   *)

\* the thread th has performed its transfer
Transferred(th) == threads[th].pc = "done" /\ threads[th].ret.t \in {"bytes", "int"}

\* C11: read_phys_mem and write_phys_mem seek and then transfer on the one
\* shared handle with no lock; a call that no other thread's seek or
\* transfer falls into (serialized calls) transfers at exactly
\* (phys_address_hi << 32) | phys_address_lo of its own call.  The
\* interleaving in which a transfer lands on the other thread's address is
\* C11_Witness.
C11_TransferAddress ==
    \A th \in Threads :
        (Transferred(th) /\ ~threads[th].crossed) =>
            threads[th].at = [hi |-> threads[th].hi, lo |-> threads[th].lo]

\* the interleaving the claim names: a thread's transfer performed at the
\* address the other thread sought, which is not its own
C11_Witness ==
    \E th \in Threads, u \in Threads :
        /\ u # th
        /\ Transferred(th)
        /\ threads[u].pc \in {"sought", "done"}
        /\ threads[th].at = [hi |-> threads[u].hi, lo |-> threads[u].lo]
        /\ threads[th].at # [hi |-> threads[th].hi, lo |-> threads[th].lo]


-----------------------------------------------------------------------------
(* Properties of read_io_port                                              *)

\* read_io_port has run and its control call has handed back a buffer
IoAnswered ==
    /\ pc = "done" /\ op = "read_io_port"
    /\ \E i \in IoctlEvents : trace[i].out.t = "bytes"

\* the buffer the control call handed back
IoAnswer == trace[2].out.v

\* the requested size, the last argument of the call
IoSize == trace[1].req[2]

\* the third machine word of a buffer of three words
ThirdWord(b) == UnpackI(SubSeq(b, 2 * (Len(b) \div 3) + 1, 2 * (Len(b) \div 3) + 4))

C12_DecodedOrRaises ==
    IoAnswered =>
        IF Len(IoAnswer) = 3 * (IF x64 THEN 8 ELSE 4)
        THEN ret = PyInt(IF IoSize = 1 THEN ThirdWord(IoAnswer) % 256
                         ELSE IF IoSize = 2 THEN ThirdWord(IoAnswer) % 65536
                         ELSE ThirdWord(IoAnswer))
        ELSE /\ ret = PyRaise("UnboundLocalError")
             /\ \E i \in 1..Len(trace) : trace[i].e = "log"


-----------------------------------------------------------------------------
(* Properties of va2pa                                                     *)

\* va2pa has run and the driver has answered both of its control calls
Va2paAnswered ==
    /\ pc = "done" /\ op = "va2pa"
    /\ Len(trace) = 3
    /\ trace[2].out.t = "bytes" /\ trace[3].out.t = "bytes"

\* the physical address the driver returned
Va2paPa == UnpackI(SubSeq(trace[2].out.v, 1, 4))

\* the width in the low 8 bits of EAX of CPUID leaf 0x80000008
Va2paWidth == UnpackI(SubSeq(trace[3].out.v, 1, 4)) % 256

\* va2pa issued one VirtToPhys call and then one CPUID(0x80000008) call
Va2paCalls ==
    /\ trace[2].e = "ioctl" /\ trace[2].nr = IOCTL_VA2PA
    /\ trace[3].e = "ioctl" /\ trace[3].nr = IOCTL_CPUID
    /\ SubSeq(trace[3].req, 1, 4) = << 8, 0, 0, 128 >>

\* C13: va2pa(va), once the driver has answered, has issued one VirtToPhys
\* call and one CPUID(0x80000008) call and returns (pa, error_code) with
\* error_code = 1 exactly when pa exceeds the maximum physical address of
\* the width w in the low 8 bits of EAX, that is when pa >= 2^w, the boundary
\* pa = 2^w included, and 0 otherwise
C13_Va2paErrorCode ==
    Va2paAnswered =>
        /\ Va2paCalls
        /\ ret = PyTuple(<< Va2paPa, IF Va2paPa >= Pow2(Va2paWidth) THEN 1 ELSE 0 >>)

\* what holds of va2pa: error_code is 1 exactly when pa > 2^w, so pa = 2^w
\* is reported as valid
C13_Va2paStrictlyAbove ==
    Va2paAnswered =>
        /\ Va2paCalls
        /\ ret = PyTuple(<< Va2paPa, IF Va2paPa > Pow2(Va2paWidth) THEN 1 ELSE 0 >>)


-----------------------------------------------------------------------------
(* Properties of LIST                                                      *)

\* a directory entry long enough to have a name before "-<guid>"
HasName(v) == Len(v) > 37

\* the entries LIST does not skip, in directory order
ListEntries == SelectSeq(varlist, HasName)

\* an entry without its last 37 characters, and its last 36 characters
EntryHead(v) == SubSeq(v, 1, Len(v) - 37)
EntryGuid(v) == SubSeq(v, Len(v) - 35, Len(v))

\* the last entry with the name n
LastEntry(n) ==
    ListEntries[CHOOSE i \in 1..Len(ListEntries) :
                    /\ EntryHead(ListEntries[i]) = n
                    /\ \A j \in (i + 1)..Len(ListEntries) : EntryHead(ListEntries[j]) # n]

\* C14: LIST over a missing directory returns None; over an existing one it
\* returns a map keyed by name: every entry is split into its head (all but
\* the last 37 characters) and its last 36 characters, entries with an empty
\* head are skipped without a GET, one GET is made per remaining entry in
\* directory order, and every name maps to a list of exactly one record, that
\* of the last entry with the name (an empty directory gives the empty map)
C14_ListResult ==
    pc = "list_done" =>
        IF efidir = "none" THEN ret = PyNone /\ trace = << >>
        ELSE /\ ret.t = "dict"
             /\ Len(trace) = Len(ListEntries)
             /\ \A i \in 1..Len(ListEntries) :
                   trace[i] = [name |-> EntryHead(ListEntries[i]),
                               guid |-> EntryGuid(ListEntries[i])]
             /\ DOMAIN ret.v = {EntryHead(ListEntries[i]) : i \in 1..Len(ListEntries)}
             /\ \A n \in DOMAIN ret.v :
                   /\ Len(ret.v[n]) = 1
                   /\ ret.v[n][1] = GetFromStore(store, n, EntryGuid(LastEntry(n))).full
                   /\ \/ ret.v[n][1].guid.t = "int"
                      \/ ret.v[n][1].guid = PyStr(EntryGuid(LastEntry(n)))
             /\ varlist = << >> => DOMAIN ret.v = {}

\* two entries with one name and different GUIDs, and a skipped entry, give
\* one record, with the GUID of the later entry
C14_Witness ==
    /\ pc = "list_done" /\ ret.t = "dict"
    /\ Len(varlist) = 3 /\ Len(ListEntries) = 2
    /\ EntryHead(ListEntries[1]) = EntryHead(ListEntries[2])
    /\ EntryGuid(ListEntries[1]) # EntryGuid(ListEntries[2])
    /\ Len(ret.v[EntryHead(ListEntries[1])]) = 1
    /\ ret.v[EntryHead(ListEntries[1])][1].guid = PyStr(EntryGuid(ListEntries[2]))

=============================================================================
